---- MODULE Spec2Model ----
(***************************************************************************)
(* Model of scripts/generate-registry.py: the filename parser              *)
(* parse_package_filename and the registry builder main().                 *)
(*                                                                         *)
(* A Python str is a sequence of one-character strings.  A parse result    *)
(* is a record: [none |-> TRUE, ...] stands for the pair (None, None),     *)
(* [none |-> FALSE, name |-> n, version |-> v] for the pair (n, v).        *)
(* A Python dict (insertion ordered) is a sequence of entries with         *)
(* pairwise distinct keys.                                                 *)
(***************************************************************************)
EXTENDS Naturals, Sequences, FiniteSets

VARIABLES
    filename,       \* parse_package_filename: the argument
    result,         \* parse_package_filename: the returned pair
    called,         \* parse_package_filename: has returned
    build_exists,   \* main: build_dir.exists()
    entries,        \* main: the names of the entries of build_dir
    listing,        \* main: build_dir.glob("*.tar.gz"), as enumerated
    tarballs,       \* main: sorted(build_dir.glob("*.tar.gz")), the names
    idx,            \* main: position of the for loop in tarballs
    packages,       \* main: the dict packages
    stdout,         \* main: what was printed (the registry before json.dumps)
    pc              \* main: control point

vars == <<filename, result, called, build_exists, entries, listing, tarballs,
          idx, packages, stdout, pc>>

parseVars == <<filename, result, called>>
mainVars == <<build_exists, entries, listing, tarballs, idx, packages, stdout, pc>>

-----------------------------------------------------------------------------
(* Characters and strings *)

\* The characters used, in ascending code point order.
CharOrder ==
    << "\n", "-", ".", "0", "1", "2", "9", "a", "b", "c", "d", "e", "g",
       "i", "k", "l", "n", "o", "p", "r", "s", "t", "v", "z" >>

Ord(c) == CHOOSE i \in 1..Len(CharOrder) : CharOrder[i] = c

IsDigit(c) == c \in {"0", "1", "2", "3", "4", "5", "6", "7", "8", "9"}

DigitVal(c) ==
    CASE c = "0" -> 0 [] c = "1" -> 1 [] c = "2" -> 2 [] c = "3" -> 3
      [] c = "4" -> 4 [] c = "5" -> 5 [] c = "6" -> 6 [] c = "7" -> 7
      [] c = "8" -> 8 [] c = "9" -> 9

\* The literal matched by \.tar\.gz
TARGZ == << ".", "t", "a", "r", ".", "g", "z" >>

\* Python's str comparison: lexicographic by code point.
RECURSIVE StrLessFrom(_, _, _)
StrLessFrom(a, b, i) ==
    IF i > Len(b) THEN FALSE
    ELSE IF i > Len(a) THEN TRUE
    ELSE IF a[i] = b[i] THEN StrLessFrom(a, b, i + 1)
    ELSE Ord(a[i]) < Ord(b[i])

StrLess(a, b) == StrLessFrom(a, b, 1)

-----------------------------------------------------------------------------
(* re.match(r'^(.+?)-(\d+\.\d+\.\d+.*?)\.tar\.gz$', filename) *)

\* "." matches any character except a newline (no DOTALL flag).
Dot(c) == c # "\n"

\* f[a..b] is a non-empty run of \d
DigitRun(f, a, b) == a <= b /\ \A i \in a..b : IsDigit(f[i])

\* f[a..b] matches .* (possibly empty)
DotRun(f, a, b) == \A i \in a..b : Dot(f[i])

\* "$" without MULTILINE: at the end of the string, or just before a newline
\* that is the last character of the string.
DollarAt(f, p) ==
    \/ p = Len(f) + 1
    \/ p = Len(f) /\ f[p] = "\n"

\* \.tar\.gz$ matches from position e
TailAt(f, e) ==
    /\ e + 6 <= Len(f)
    /\ SubSeq(f, e, e + 6) = TARGZ
    /\ DollarAt(f, e + 7)

\* \d+\.\d+\.\d+.*? matches f[s..e-1]
VersionAt(f, s, e) ==
    \E i \in (s + 1)..(e - 1) :
        /\ f[i] = "."
        /\ DigitRun(f, s, i - 1)
        /\ \E j \in (i + 2)..(e - 2) :
              /\ f[j] = "."
              /\ DigitRun(f, i + 1, j - 1)
              /\ IsDigit(f[j + 1])
              /\ DotRun(f, j + 2, e - 1)

\* The whole pattern matches with group 1 = f[1..k], group 2 = f[k+2..e-1].
MatchAt(f, k, e) ==
    /\ TailAt(f, e)
    /\ k + 1 <= Len(f) /\ f[k + 1] = "-"
    /\ DotRun(f, 1, k)
    /\ VersionAt(f, k + 2, e)

\* The positions where \.tar\.gz$ matches
TailStarts(f) == { e \in 1..Len(f) : TailAt(f, e) }

Matches(f) ==
    { m \in (1..Len(f)) \X TailStarts(f) : MatchAt(f, m[1], m[2]) }

Least(S) == CHOOSE x \in S : \A y \in S : x <= y
Greatest(S) == CHOOSE x \in S : \A y \in S : y <= x

\* (.+?) is lazy: the backtracking search tries the shortest group 1 first.
GreedyName(f) == Greatest({ m[1] : m \in Matches(f) })
NameEnd(f) == Least({ m[1] : m \in Matches(f) })

\* (... .*?) is lazy: for that group 1, the shortest group 2 first.
TokenEnd(f) ==
    LET k == NameEnd(f) IN Least({ e \in 1..(Len(f) + 1) : VersionAt(f, k + 2, e) })
VersionEnd(f) ==
    LET k == NameEnd(f) IN Least({ e \in TailStarts(f) : MatchAt(f, k, e) })

NonePair == [none |-> TRUE, name |-> << >>, version |-> << >>]
Pair(n, v) == [none |-> FALSE, name |-> n, version |-> v]

parse_package_filename(f) ==
    IF Matches(f) # {}
    THEN LET k == NameEnd(f) IN Pair(SubSeq(f, 1, k), SubSeq(f, k + 2, VersionEnd(f) - 1))
    ELSE NonePair

-----------------------------------------------------------------------------
(* Inputs of the parser: concatenations of at most MaxParts pieces *)

MaxParts == 4

Pieces ==
    { << "a" >>, << "-" >>, << "1" >>, << "." >>, << "\n" >>,
      << "-", "1", ".", "2", ".", "9" >>, TARGZ }

RECURSIVE Concat(_)
Concat(ss) == IF ss = << >> THEN << >> ELSE Head(ss) \o Concat(Tail(ss))

ParseInputs ==
    { Concat(ss) : ss \in UNION { [1..n -> Pieces] : n \in 0..MaxParts } }

-----------------------------------------------------------------------------
(* The parser called on an arbitrary string *)

ParseInit ==
    /\ filename \in ParseInputs
    /\ result = NonePair
    /\ called = FALSE
    /\ build_exists = FALSE
    /\ entries = {}
    /\ listing = << >>
    /\ tarballs = << >>
    /\ idx = 1
    /\ packages = << >>
    /\ stdout = << >>
    /\ pc = "idle"

ParseCall ==
    /\ ~called
    /\ result' = parse_package_filename(filename)
    /\ called' = TRUE
    /\ UNCHANGED <<filename, mainVars>>

ParseNext == ParseCall

ParseSpec == ParseInit /\ [][ParseNext]_vars

-----------------------------------------------------------------------------
(* main(): the registry builder *)

\* build_dir.glob("*.tar.gz") keeps the entries whose name matches the
\* pattern: fnmatch translates it to (?s:.*\.tar\.gz)\Z, any characters
\* followed by the literal at the very end of the name.
GlobAll(dir) == dir
Glob(dir) ==
    { f \in dir :
        \E e \in 1..Len(f) : e + 6 = Len(f) /\ SubSeq(f, e, e + 6) = TARGZ }

\* The orders in which the file system may enumerate a set of names.
Enumerations(S) ==
    { s \in [1..Cardinality(S) -> S] : \A i, j \in 1..Cardinality(S) : s[i] = s[j] => i = j }

\* Path.__lt__ on entries of one directory: comparison of the names.
PathLess(a, b) == StrLess(a, b)

\* sorted(): ascending by "<"
RECURSIVE InsertSorted(_, _)
InsertSorted(seq, x) ==
    IF seq = << >> THEN << x >>
    ELSE IF PathLess(x, Head(seq)) THEN << x >> \o seq
    ELSE << Head(seq) >> \o InsertSorted(Tail(seq), x)

RECURSIVE SortFrom(_, _)
SortFrom(acc, seq) ==
    IF seq = << >> THEN acc ELSE SortFrom(InsertSorted(acc, Head(seq)), Tail(seq))

Unsorted(seq) == seq
sorted(seq) == SortFrom(<< >>, seq)

\* name in packages
HasKey(pkgs, n) == \E i \in 1..Len(pkgs) : pkgs[i].name = n

RECURSIVE ToInt(_)
ToInt(ds) ==
    IF ds = << >> THEN 0
    ELSE 10 * ToInt(SubSeq(ds, 1, Len(ds) - 1)) + DigitVal(ds[Len(ds)])

\* <major>.<minor>.<patch>[suffix] as three numbers
FirstNonDigit(v) ==
    IF \E i \in 1..Len(v) : ~IsDigit(v[i])
    THEN Least({ i \in 1..Len(v) : ~IsDigit(v[i]) })
    ELSE Len(v) + 1

LeadingInt(v) == ToInt(SubSeq(v, 1, FirstNonDigit(v) - 1))
AfterDot(v) == SubSeq(v, FirstNonDigit(v) + 1, Len(v))

VersionKey(v) ==
    << LeadingInt(v), LeadingInt(AfterDot(v)), LeadingInt(AfterDot(AfterDot(v))) >>

KeyLess(a, b) ==
    \/ a[1] < b[1]
    \/ a[1] = b[1] /\ a[2] < b[2]
    \/ a[1] = b[1] /\ a[2] = b[2] /\ a[3] < b[3]

\* The body of "if name and version:", lines 42-50.
WithEntry(pkgs, n, v) ==
    IF HasKey(pkgs, n) THEN pkgs
    ELSE Append(pkgs, [name |-> n, versions |-> << >>, latest |-> v])

AccumulateHighest(pkgs, n, v) ==
    [ i \in 1..Len(WithEntry(pkgs, n, v)) |->
        LET e == WithEntry(pkgs, n, v)[i] IN
        IF e.name = n
        THEN [e EXCEPT !.versions = Append(@, v),
                       !.latest = IF KeyLess(VersionKey(@), VersionKey(v)) THEN v ELSE @]
        ELSE e ]

AccumulateKeepFirst(pkgs, n, v) ==
    [ i \in 1..Len(WithEntry(pkgs, n, v)) |->
        LET e == WithEntry(pkgs, n, v)[i] IN
        IF e.name = n THEN [e EXCEPT !.versions = Append(@, v)] ELSE e ]

AccumulatePrepend(pkgs, n, v) ==
    [ i \in 1..Len(WithEntry(pkgs, n, v)) |->
        LET e == WithEntry(pkgs, n, v)[i] IN
        IF e.name = n
        THEN [e EXCEPT !.versions = << v >> \o @, !.latest = v]
        ELSE e ]

Accumulate(pkgs, n, v) ==
    [ i \in 1..Len(WithEntry(pkgs, n, v)) |->
        LET e == WithEntry(pkgs, n, v)[i] IN
        IF e.name = n
        THEN [e EXCEPT !.versions = Append(@, v), !.latest = v]
        ELSE e ]

\* "if name and version": neither None nor the empty string
Truthy(r) == ~r.none /\ r.name # << >> /\ r.version # << >>

\* One iteration of the for loop, lines 39-50.
LoopStep(pkgs, tarball) ==
    LET r == parse_package_filename(tarball) IN
    IF Truthy(r) THEN Accumulate(pkgs, r.name, r.version) ELSE pkgs

EmptyRegistry == [packages |-> << >>]

-----------------------------------------------------------------------------
(* The build directories considered: at most MaxEntries of these names *)

MaxEntries == 4

PKG == << "p", "k", "g" >>
BASE_DEV == << "b", "a", "s", "e", "-", "d", "e", "v" >>
TOOLS == << "t", "o", "o", "l", "s" >>
V_1_0_0 == << "1", ".", "0", ".", "0" >>
V_2_0_0 == << "2", ".", "0", ".", "0" >>
V_9_0_0 == << "9", ".", "0", ".", "0" >>
V_10_0_0 == << "1", "0", ".", "0", ".", "0" >>
V_1_2_0 == << "1", ".", "2", ".", "0" >>
V_0_9_1 == << "0", ".", "9", ".", "1" >>
V_1_0_0_rc1 == V_1_0_0 \o << "-", "r", "c", "1" >>

Archive(n, v) == n \o << "-" >> \o v \o TARGZ

EntryNames ==
    { Archive(PKG, V_1_0_0), Archive(PKG, V_2_0_0), Archive(PKG, V_9_0_0),
      Archive(PKG, V_10_0_0), Archive(PKG, V_1_0_0_rc1),
      Archive(BASE_DEV, V_1_0_0), Archive(BASE_DEV, V_1_2_0),
      Archive(TOOLS, V_0_9_1),
      << "n", "o", "t", "e", "s" >> \o TARGZ,
      Archive(PKG, V_1_0_0) \o << "\n" >>,
      PKG \o << "-" >> \o V_1_0_0 \o << ".", "z", "i", "p" >> }

Directories == { d \in SUBSET EntryNames : Cardinality(d) <= MaxEntries }

-----------------------------------------------------------------------------
(* main() as a state machine *)

Init ==
    /\ filename = << >>
    /\ result = NonePair
    /\ called = FALSE
    /\ build_exists \in BOOLEAN
    /\ entries \in Directories
    /\ build_exists = FALSE => entries = {}
    /\ listing = << >>
    /\ tarballs = << >>
    /\ idx = 1
    /\ packages = << >>
    /\ stdout = << >>
    /\ pc = "start"

\* lines 32-34: the build directory is missing
MissingBuildDir ==
    /\ pc = "start"
    /\ ~build_exists
    /\ stdout' = Append(stdout, EmptyRegistry)
    /\ pc' = "done"
    /\ UNCHANGED <<parseVars, build_exists, entries, listing, tarballs, idx, packages>>

\* lines 36-38: packages = {} and the sorted listing the loop runs over
Scan ==
    /\ pc = "start"
    /\ build_exists
    /\ packages' = << >>
    /\ listing' \in Enumerations(Glob(entries))
    /\ tarballs' = sorted(listing')
    /\ idx' = 1
    /\ pc' = "loop"
    /\ UNCHANGED <<parseVars, build_exists, entries, stdout>>

\* lines 39-50: one iteration
Iterate ==
    /\ pc = "loop"
    /\ idx <= Len(tarballs)
    /\ packages' = LoopStep(packages, tarballs[idx])
    /\ idx' = idx + 1
    /\ UNCHANGED <<parseVars, build_exists, entries, listing, tarballs, stdout, pc>>

\* lines 52-53: the loop is over, the registry is printed
Emit ==
    /\ pc = "loop"
    /\ idx > Len(tarballs)
    /\ stdout' = Append(stdout, [packages |-> packages])
    /\ pc' = "done"
    /\ UNCHANGED <<parseVars, build_exists, entries, listing, tarballs, idx, packages>>

Next == MissingBuildDir \/ Scan \/ Iterate \/ Emit

Spec == Init /\ [][Next]_vars

-----------------------------------------------------------------------------
(* The filename format <name>-<major>.<minor>.<patch>[suffix].tar.gz,       *)
(* stated on strings, independently of the matcher                          *)

HasSuffix(f, suf) ==
    /\ Len(suf) <= Len(f)
    /\ SubSeq(f, Len(f) - Len(suf) + 1, Len(f)) = suf

AllDigits(v, a, b) == a <= b /\ \A i \in a..b : IsDigit(v[i])

\* v = <major>.<minor>.<patch><suffix>: digits, dot, digits, dot, digits, rest
StartsWithVersion(v) ==
    \E i, j \in 1..Len(v) :
        /\ v[i] = "." /\ v[j] = "." /\ i < j /\ j < Len(v)
        /\ AllDigits(v, 1, i - 1)
        /\ AllDigits(v, i + 1, j - 1)
        /\ IsDigit(v[j + 1])

\* f contains a digits.digits.digits segment somewhere
HasVersionSegment(f) ==
    \E s \in 1..Len(f) : StartsWithVersion(SubSeq(f, s, Len(f)))

HasNewline(s) == \E i \in 1..Len(s) : s[i] = "\n"

\* f = f[1..k] + "-" + v + ".tar.gz" with f[1..k] non-empty and v of the
\* form <major>.<minor>.<patch>[suffix]
NameOf(f, k) == SubSeq(f, 1, k)
VersionOf(f, k) == SubSeq(f, k + 2, Len(f) - Len(TARGZ))

IsSplit(f, k) ==
    /\ k >= 1 /\ k + 1 <= Len(f) /\ f[k + 1] = "-"
    /\ HasSuffix(f, TARGZ)
    /\ k + 1 + Len(TARGZ) <= Len(f)
    /\ StartsWithVersion(VersionOf(f, k))

Splits(f) == { k \in 1..Len(f) : IsSplit(f, k) }

\* n holds a dash, not its first character, that digits.digits.digits follows
EmbedsVersion(n) ==
    \E d \in 2..Len(n) :
        n[d] = "-" /\ StartsWithVersion(SubSeq(n, d + 1, Len(n)))

-----------------------------------------------------------------------------
(* Claims about parse_package_filename (checked under ParseSpec) *)

\* C2 (as stated): for every way of reading the filename as
\* <name>-<major>.<minor>.<patch>[suffix].tar.gz, name any non-empty string
\* and suffix any string, the parser returns exactly (name, version).
C2_AnyNameAnySuffix ==
    called =>
        \A k \in Splits(filename) :
            result = Pair(NameOf(filename, k), VersionOf(filename, k))

\* C2 (amended): the parser returns exactly (name, version) for every such
\* filename whose name holds no newline and no dash (other than its first
\* character) followed by digits.digits.digits, and whose suffix holds no
\* newline.
C2_ParsesWellFormed ==
    called =>
        \A k \in Splits(filename) :
            (/\ ~HasNewline(NameOf(filename, k))
             /\ ~HasNewline(VersionOf(filename, k))
             /\ ~EmbedsVersion(NameOf(filename, k)))
            => result = Pair(NameOf(filename, k), VersionOf(filename, k))

\* A name with a dash in it and a version with a suffix was parsed.
C2_Witness ==
    /\ called
    /\ \E k \in Splits(filename) :
          /\ ~HasNewline(filename)
          /\ ~EmbedsVersion(NameOf(filename, k))
          /\ \E i \in 1..k : filename[i] = "-"
          /\ Len(VersionOf(filename, k)) > 5
          /\ result = Pair(NameOf(filename, k), VersionOf(filename, k))

\* C3: a string that does not end in ".tar.gz", or that holds no
\* digits.digits.digits segment, is answered with (None, None).
C3_RejectsOutsideFormat ==
    (called /\ (~HasSuffix(filename, TARGZ) \/ ~HasVersionSegment(filename)))
        => result = NonePair

\* C9: on success the returned name is the shortest non-empty prefix p with
\* filename = p + "-" + v + ".tar.gz" for a v starting digits.digits.digits.
C9_ShortestPrefix ==
    (called /\ ~result.none) =>
        /\ Splits(filename) # {}
        /\ result.name = NameOf(filename, Least(Splits(filename)))

-----------------------------------------------------------------------------
(* Claims about main() (checked under Spec) *)

\* The registry built so far, and once printed, the registry printed.
Registry == IF pc = "done" THEN stdout[Len(stdout)].packages ELSE packages

\* The archives of the build directory: the entries named *.tar.gz
Archives == { f \in entries : HasSuffix(f, TARGZ) }

\* Which of the names a directory may hold sorts before which
SortsBefore == [ p \in EntryNames \X EntryNames |-> StrLess(p[1], p[2]) ]

\* The number of names of S that sort before f
Rank(f, S) == Cardinality({ g \in S : SortsBefore[<<g, f>>] })

\* The archives the loop has been through: the first idx - 1 in ascending
\* filename order.
Processed ==
    LET A == Archives IN { f \in A : Rank(f, A) < idx - 1 }

\* What the parser answers on each name a directory may hold
ParseTable == [ f \in EntryNames |-> parse_package_filename(f) ]
Parsed(f) == ParseTable[f]

\* The archives of P the parser accepts with name n
OfName(n, P) == { f \in P : ~Parsed(f).none /\ Parsed(f).name = n }

\* The one of S that sorts last
LastOf(S) == CHOOSE f \in S : \A g \in S : g = f \/ SortsBefore[<<g, f>>]

C4_LatestIs_1_0_0 ==
    (pc = "done" /\ build_exists
        /\ entries = { Archive(PKG, V_1_0_0), Archive(PKG, V_2_0_0) })
    => \E i \in 1..Len(Registry) :
          Registry[i].name = PKG /\ Registry[i].latest = V_1_0_0

\* C4 (amended): pkg-1.0.0.tar.gz sorts before pkg-2.0.0.tar.gz, and over a
\* build directory holding these two archives the printed entry of pkg has
\* versions ["1.0.0", "2.0.0"] and latest "2.0.0".
C4_LatestIs_2_0_0 ==
    (pc = "done" /\ build_exists
        /\ entries = { Archive(PKG, V_1_0_0), Archive(PKG, V_2_0_0) })
    => /\ StrLess(Archive(PKG, V_1_0_0), Archive(PKG, V_2_0_0))
       /\ stdout = << [packages |->
              << [name |-> PKG, versions |-> << V_1_0_0, V_2_0_0 >>,
                  latest |-> V_2_0_0] >>] >>

\* The builder ran over the two archives, enumerated pkg-2.0.0 first.
C4_Witness ==
    /\ pc = "done" /\ build_exists
    /\ listing = << Archive(PKG, V_2_0_0), Archive(PKG, V_1_0_0) >>

\* C5: the package names are those of the accepted archives; each versions
\* list holds one element per accepted archive of that name, in ascending
\* order of the filenames; rejected filenames contribute nothing.
C5_VersionsPerArchiveInOrder ==
    LET P == Processed IN
    /\ \A i, j \in 1..Len(Registry) : Registry[i].name = Registry[j].name => i = j
    /\ { Registry[i].name : i \in 1..Len(Registry) }
          = { Parsed(f).name : f \in { g \in P : ~Parsed(g).none } }
    /\ \A i \in 1..Len(Registry) :
          LET files == OfName(Registry[i].name, P) IN
          /\ Len(Registry[i].versions) = Cardinality(files)
          /\ \A f \in files :
                Registry[i].versions[Rank(f, files) + 1] = Parsed(f).version

\* The directory of the example, and a file the parser rejects, were
\* processed.
C5_Witness ==
    /\ pc = "done"
    /\ entries = { Archive(BASE_DEV, V_1_0_0), Archive(BASE_DEV, V_1_2_0),
                   Archive(TOOLS, V_0_9_1), << "n", "o", "t", "e", "s" >> \o TARGZ }
    /\ stdout = << [packages |->
           << [name |-> BASE_DEV, versions |-> << V_1_0_0, V_1_2_0 >>,
               latest |-> V_1_2_0],
              [name |-> TOOLS, versions |-> << V_0_9_1 >>,
               latest |-> V_0_9_1] >>] >>

\* C6: without a build directory, and with one that holds no *.tar.gz
\* entry, the run goes on to its end and prints exactly {"packages": {}}.
C6_EmptyRegistry ==
    (~build_exists \/ Archives = {}) =>
        /\ pc # "done" => ENABLED Next
        /\ pc = "done" => stdout = << EmptyRegistry >>

\* A build directory with entries, none of them an archive, was processed.
C6_Witness ==
    /\ pc = "done" /\ build_exists
    /\ entries # {} /\ Archives = {}

\* The registry as a function of a set of archive names alone.
AcceptedIn(A) == { f \in A : ~Parsed(f).none }
NamedIn(n, A) == { f \in AcceptedIn(A) : Parsed(f).name = n }
NamesIn(A) == { Parsed(f).name : f \in AcceptedIn(A) }
NthOf(S, k) == CHOOSE f \in S : Rank(f, S) = k - 1

RegistryEntryOf(n, A) ==
    [ name |-> n,
      versions |-> [ k \in 1..Cardinality(NamedIn(n, A)) |->
                        Parsed(NthOf(NamedIn(n, A), k)).version ],
      latest |-> Parsed(LastOf(NamedIn(n, A))).version ]

FirstFiles(A) == { NthOf(NamedIn(n, A), 1) : n \in NamesIn(A) }

RegistryOf(A) ==
    [ packages |->
        [ k \in 1..Cardinality(NamesIn(A)) |->
            RegistryEntryOf(Parsed(NthOf(FirstFiles(A), k)).name, A) ] ]

\* C7: the output is a function of the set of entry names only, whatever
\* the order the file system enumerated them in.
C7_OutputDependsOnSetOnly ==
    pc = "done" =>
        stdout = << RegistryOf(IF build_exists THEN Archives ELSE {}) >>

\* A run ended whose directory was enumerated in an order other than the
\* sorted one, with two packages in the output.
C7_Witness ==
    /\ pc = "done"
    /\ listing # tarballs
    /\ Len(Registry) >= 2

\* C8: in the output each package's latest is the numerically highest of
\* its versions.
C8_LatestIsHighest ==
    pc = "done" =>
        \A i \in 1..Len(Registry) : \A j \in 1..Len(Registry[i].versions) :
            ~KeyLess(VersionKey(Registry[i].latest),
                     VersionKey(Registry[i].versions[j]))

\* C10: every accepted archive is named name + "-" + version + ".tar.gz"
\* for the pair the parser returned, and no version string occurs twice in
\* the versions list of a package, at any point of the loop.
C10_NoDuplicateVersion ==
    /\ \A f \in Processed :
          ~Parsed(f).none => f = Archive(Parsed(f).name, Parsed(f).version)
    /\ \A i \in 1..Len(Registry) :
          \A j, k \in 1..Len(Registry[i].versions) :
              Registry[i].versions[j] = Registry[i].versions[k] => j = k

\* Two archives of one package with the same digits.digits.digits were
\* processed.
C10_Witness ==
    /\ pc = "done"
    /\ \E i \in 1..Len(Registry) :
          /\ Registry[i].name = PKG
          /\ Registry[i].versions = << V_1_0_0_rc1, V_1_0_0 >>

====
